---------------------------- MODULE Spec2Model ----------------------------
(***************************************************************************)
(* Model of the Proxmox maintenance tooling (src/py): the batch runner     *)
(* (proxmox_batch.py, proxmox_cli/core/batch.py), the fleet orchestrator   *)
(* and the guest reconcilers (proxmox_maintenance.py,                      *)
(* proxmox_cli/core/maintenance.py) and the remote command channel with    *)
(* the guest upgrade helper (proxmox_cli/utils/ssh.py).                    *)
(*                                                                         *)
(* Everything runs on one asyncio event loop.  An action of the model is   *)
(* one callback of that loop: the code from one suspension point (an       *)
(* awaited remote command, the semaphore, gather) to the next.  A pc names *)
(* the remote command a coroutine is waiting for.  A mutable command under *)
(* dry-run returns without suspending, so it is part of the same action.   *)
(***************************************************************************)
EXTENDS Integers, Sequences, FiniteSets, TLC

\* ------------------------------------------------------------------ bounds
\* Hosts in the manifest (their names are 1..NumHosts).
NumHosts == 2
\* Most guests (VMs and containers together) the hosts of one run have.
MaxGuests == 2
\* Largest max_parallel a host is configured with.
MaxParallel == 2
\* Largest --max-hosts limit tried.
MaxLimit == 1

\* Elements of a JSON list tried.
MaxItems == 2

\* Tokens of an output given to the address extraction.
MaxTokens == 2

\* Addresses of an interface and interfaces of a guest agent's reply.
MaxAddresses == 2

MaxInterfaces == 2

\* A host name no manifest entry has.
UnknownHost == NumHosts + 1

Slots == 1..NumHosts
Kinds == {"vm", "ct"}
GuestIds == 1..(MaxGuests + 1)

Max(a, b) == IF a >= b THEN a ELSE b

\* --------------------------------------------------- remote command channel
\* The outcomes of a spawned ssh process: exit status 0 or not, its output
\* being UTF-8 (FinishRun below is run() with the decoding of the output,
\* the check flag and the exit status itself).
ProcOutcomes == {"exit0", "exitN"}

\* SSHSession.run with check=True and no timeout, as every caller uses it.
\* spawned: a process was created.  result: "synthetic" is the dry-run
\* CommandResult(stdout="", stderr="", returncode=0); "ok" a CommandResult of
\* a process that exited 0; "failed" a raised CommandExecutionError.
\* (SSHSkipsMutableOnly is a faulty variant that ignores dry_run; ThmC2 must
\* tell it from SSHSessionRun.)
SSHSkipsMutableOnly(dry_run, mutable, proc) ==
    IF mutable
    THEN [spawned |-> FALSE, result |-> "synthetic"]
    ELSE [spawned |-> TRUE,
          result |-> IF proc = "exit0" THEN "ok" ELSE "failed"]

SSHSessionRun(dry_run, mutable, proc) ==
    IF dry_run /\ mutable
    THEN [spawned |-> FALSE, result |-> "synthetic"]
    ELSE [spawned |-> TRUE,
          result |-> IF proc = "exit0" THEN "ok" ELSE "failed"]

\* Which commands the callers flag mutable=True.
Mutable(cmd) == cmd \in {"shutdown", "backup", "start", "host_upgrade", "guest_upgrade"}

\* One entry of a command log: the command, its mutable flag and whether
\* run() spawned a process for it (else it returned the synthetic result).
CallEntry(cmd, dry_run) ==
    [cmd |-> cmd, mutable |-> Mutable(cmd),
     spawned |-> SSHSessionRun(dry_run, Mutable(cmd), "exit0").spawned]

\* ------------------------------------------------------- inventory records
\* _InventoryRecord is declared frozen: assigning vm.status raises
\* pydantic's ValidationError instead of changing the record.
RecordFrozen == TRUE

\* str.lower() on the strings that occur with capitals.
Lower(t) ==
    CASE t = "Ubuntu" -> "ubuntu"
      [] t = "Running" -> "running"
      [] OTHER -> t

\* VirtualMachine.is_running / LXCContainer.is_running
\* (IsRunningNever is a faulty variant that takes no guest for running;
\* ThmC28 must tell it from is_running.)
IsRunningNever(status) == FALSE

is_running(status) == Lower(status) = "running"

\* Statuses a listing reports.
Statuses == {"running", "stopped"}

\* ------------------------------------------------------- guest reconcilers
\* A reconciler task: pc is "waiting" (for the gate), the step whose command
\* is in flight, or how the task ended; status is the record's status; log
\* holds the commands issued on the host session; exc the exception raised;
\* failed the step whose command last ended in CommandExecutionError.
NewWorker(status) ==
    [pc |-> "waiting", status |-> status, was_running |-> FALSE,
     log |-> <<>>, exc |-> "none", failed |-> "none"]

\* The tasks and the gate of one _run_with_limit call, with what the agent
\* holds of its options: max_parallel as configured and the host session's
\* dry_run.  NoBatch: _run_with_limit was not called, or with no agents.
NoBatch == [max_parallel |-> 1, dry_run |-> FALSE, sem |-> 0, tasks |-> <<>>]

Steps == {"stop", "backup", "start", "fetch_ip", "upgrade", "final_stop"}

\* The command a step sends ("guest_release" is the first command of
\* attempt_guest_upgrade, the read of the guest's /etc/os-release).
CmdOf(step) ==
    CASE step \in {"stop", "final_stop"} -> "shutdown"
      [] step = "upgrade" -> "guest_release"
      [] OTHER -> step

Finished(w) == w.pc \in {"returned", "raised", "cancelled"}

InReconcile(w) == w.pc \in Steps

Raise(w, exc) == [w EXCEPT !.pc = "raised", !.exc = exc]

Return(w) == [w EXCEPT !.pc = "returned"]

\* stop, backup and start await the command without a try: its
\* CommandExecutionError leaves the method and reconcile().
\* (PropagatesNever is a faulty variant that swallows it; ThmC11 must tell
\* it from Propagates.)
PropagatesNever(result) == FALSE

Propagates(result) == result = "failed"

RECURSIVE Issue(_, _, _, _)
RECURSIVE After(_, _, _, _, _)

\* reconcile() reaches the await of `step`: the command is logged, and when
\* the session answers without suspending (dry-run) the code goes on.
Issue(w, step, dry_run, ip) ==
    LET e  == CallEntry(CmdOf(step), dry_run)
        w1 == [w EXCEPT !.log = Append(w.log, e), !.pc = step]
    IN  IF e.spawned THEN w1 ELSE After(w1, step, "synthetic", dry_run, ip)

\* The code of reconcile() after the command of `step` ended with `result`
\* (stop_vm/stop, backup_vm/backup, start_vm/start, fetch_ip and the rest of
\* reconcile).  ip: whether address discovery finds an address.
After(w, step, result, dry_run, ip) ==
    CASE step \in {"stop", "final_stop"} ->
            IF Propagates(result) THEN Raise(w, "CommandExecutionError")
            ELSE IF RecordFrozen THEN Raise(w, "ValidationError")
            ELSE LET w1 == [w EXCEPT !.status = "stopped"]
                 IN  IF step = "stop" THEN Issue(w1, "backup", dry_run, ip)
                     ELSE Return(w1)
      [] step = "backup" ->
            IF Propagates(result) THEN Raise(w, "CommandExecutionError")
            ELSE Issue(w, "start", dry_run, ip)
      [] step = "start" ->
            IF Propagates(result) THEN Raise(w, "CommandExecutionError")
            ELSE IF RecordFrozen THEN Raise(w, "ValidationError")
            ELSE Issue([w EXCEPT !.status = "running"], "fetch_ip", dry_run, ip)
      [] step = "fetch_ip" ->
            IF result = "ok" /\ ip THEN Issue(w, "upgrade", dry_run, ip)
            ELSE IF ~w.was_running THEN Issue(w, "final_stop", dry_run, ip)
            ELSE Return(w)
      [] OTHER ->  \* "upgrade": attempt_guest_upgrade never raises
            IF ~w.was_running THEN Issue(w, "final_stop", dry_run, ip)
            ELSE Return(w)

\* The start of reconcile(): observe the state, then stop or back up.
Reconcile(w, dry_run) ==
    LET w1 == [w EXCEPT !.was_running = is_running(w.status)]
    IN  IF is_running(w1.status) THEN Issue(w1, "stop", dry_run, FALSE)
        ELSE Issue(w1, "backup", dry_run, FALSE)

\* A command that reached the remote host was issued between w and w2.
IssuedSpawned(w, w2) ==
    \E n \in (Len(w.log) + 1)..Len(w2.log) : w2.log[n].spawned

\* ProxmoxAgent.__init__: self.max_parallel = max(1, max_parallel)
\* (ClampOffByOne is a faulty variant letting one reconciler too many in;
\* ThmC3 must tell it from ClampParallel.)
ClampOffByOne(max_parallel) == Max(2, max_parallel + 1)

ClampParallel(max_parallel) == Max(1, max_parallel)

\* ------------------------------------------------------------ guest upgrade
\* (DetermineSuseFirst is a faulty variant that looks for the SUSE family
\* before Arch; ThmC16 must tell it from determine_package_manager.)
DetermineSuseFirst(os_release) ==
    LET candidates == {Lower(os_release.ID)} \cup
                      {Lower(os_release.ID_LIKE[n]) : n \in 1..Len(os_release.ID_LIKE)}
    IN  IF candidates \cap {"alpine"} # {} THEN "apk"
        ELSE IF candidates \cap {"debian", "ubuntu"} # {} THEN "apt"
        ELSE IF candidates \cap {"fedora", "rhel", "centos"} # {} THEN "dnf"
        ELSE IF candidates \cap {"suse", "opensuse", "sles"} # {} THEN "zypper"
        ELSE IF "arch" \in candidates THEN "pacman"
        ELSE "None"

\* determine_package_manager on {ID, ID_LIKE}
determine_package_manager(os_release) ==
    LET candidates == {Lower(os_release.ID)} \cup
                      {Lower(os_release.ID_LIKE[n]) : n \in 1..Len(os_release.ID_LIKE)}
    IN  IF candidates \cap {"alpine"} # {} THEN "apk"
        ELSE IF candidates \cap {"debian", "ubuntu"} # {} THEN "apt"
        ELSE IF candidates \cap {"fedora", "rhel", "centos"} # {} THEN "dnf"
        ELSE IF "arch" \in candidates THEN "pacman"
        ELSE IF candidates \cap {"suse", "opensuse", "sles"} # {} THEN "zypper"
        ELSE "None"

\* Contents of /etc/os-release tried.
OsReleases ==
    {[ID |-> "Ubuntu", ID_LIKE |-> <<"debian">>],
     [ID |-> "Ubuntu", ID_LIKE |-> <<>>],
     [ID |-> "alpine", ID_LIKE |-> <<>>],
     [ID |-> "plan9", ID_LIKE |-> <<>>],
     [ID |-> "manjaro", ID_LIKE |-> <<"arch", "suse">>]}

\* build_upgrade_command: the tool's upgrade line, each part prefixed with
\* "sudo " when use_sudo.
\* (BuildAlwaysSudo is a faulty variant that prefixes whatever use_sudo is;
\* ThmC17 must tell it from build_upgrade_command.)
BuildAlwaysSudo(package_manager, use_sudo) ==
    [tool |-> package_manager, sudo |-> TRUE]

build_upgrade_command(package_manager, use_sudo) ==
    [tool |-> package_manager, sudo |-> use_sudo]

\* "cat /etc/os-release"
ReleaseCommand == [tool |-> "cat", sudo |-> FALSE]

\* Users a guest session logs in as, and what is typed at the prompt for
\* an alternate username.
Users == {"root", "admin"}

Typed == {"", "root", "ops"}

\* prompt_for_alternate_username: "" stands for None.
prompt_for_alternate_username(isatty, typed) == IF ~isatty THEN "" ELSE typed

\* No call of attempt_guest_upgrade yet.  pc: "idle", the command in flight
\* ("guest_release", "guest_upgrade") or "done"; user and retry describe the
\* session in use; log holds the commands issued on the guest sessions.
\* Kept for the properties: seen, the package manager determined on each
\* session whose release file was read; cause, why the last
\* upgrade_guest_operating_system returned False ("command": a
\* CommandExecutionError, "unsupported": no package manager); why, the
\* cause that led to the retry session; tty, whether the prompt found a
\* terminal.
NoAttempt ==
    [pc |-> "idle", dry_run |-> FALSE, user |-> "root", retry |-> FALSE,
     log |-> <<>>, seen |-> <<>>, cause |-> "none", why |-> "none",
     tty |-> FALSE]

\* The session in use: 1 is the session of default_user, 2 the retry session.
SessionOf(a) == IF a.retry THEN 2 ELSE 1

\* One entry of the guest log: as CallEntry, with the session, its user
\* and the command line.
GuestEntry(cmd, a, text) ==
    [cmd |-> cmd, mutable |-> Mutable(cmd),
     spawned |-> SSHSessionRun(a.dry_run, Mutable(cmd), "exit0").spawned,
     session |-> SessionOf(a), user |-> a.user, text |-> text]

\* upgrade_guest_operating_system starts on a session: the release file is read.
IssueRelease(a) ==
    [a EXCEPT !.pc = "guest_release",
              !.log = Append(a.log, GuestEntry("guest_release", a, ReleaseCommand))]

\* upgrade_guest_operating_system returned False: attempt_guest_upgrade
\* returns after the retry session, or when no alternate username is given;
\* else it makes the retry session for that user.
AfterFailure(a, cause, isatty, typed) ==
    LET alternate_user == prompt_for_alternate_username(isatty, typed)
        a1 == [a EXCEPT !.cause = cause]
    IN  IF a.retry THEN [a1 EXCEPT !.pc = "done"]
        ELSE IF alternate_user = "" THEN [a1 EXCEPT !.pc = "done", !.tty = isatty]
        ELSE IssueRelease([a1 EXCEPT !.user = alternate_user, !.retry = TRUE,
                                     !.why = cause, !.tty = isatty])

\* ------------------------------------------- SSHSession.run, call by call
\* What a process wrote on a pipe: bytes that are UTF-8 or not, and, when
\* they are, the text they decode to.  A text is empty, whitespace only,
\* words that are no JSON, or a JSON document (see the inventory client).
\* communicate() gives None for a pipe that was not captured and b"" for
\* one nothing was written to; run() turns both into "".
NoDoc == [t |-> "scalar", items |-> <<>>,
          data |-> [present |-> FALSE, is_list |-> FALSE, items |-> <<>>],
          result |-> [present |-> FALSE, is_list |-> FALSE, items |-> <<>>]]

EmptyText == [kind |-> "empty", doc |-> NoDoc]

NoBytes == [utf8 |-> TRUE, text |-> EmptyText]

InvalidBytes == [utf8 |-> FALSE, text |-> EmptyText]

SampleBytes ==
    {NoBytes, InvalidBytes, [utf8 |-> TRUE, text |-> [kind |-> "words", doc |-> NoDoc]]}

\* Exit statuses of the ssh client: 0, the remote command's own failure,
\* ssh's connection failure.
ExitStatuses == {0, 1, 255}

\* CommandResult(stdout="", stderr="", returncode=0) of the dry-run branch.
SyntheticResult == [stdout |-> EmptyText, stderr |-> EmptyText, returncode |-> 0]

\* run() after communicate() returned: both pipes are decoded
\* (bytes.decode() raises UnicodeDecodeError on bytes that are not UTF-8),
\* then the exit status is checked.
FinishRun(check, returncode, stdout_bytes, stderr_bytes) ==
    IF ~stdout_bytes.utf8 \/ ~stderr_bytes.utf8
    THEN [raised |-> "UnicodeDecodeError", result |-> SyntheticResult]
    ELSE IF check /\ returncode # 0
    THEN [raised |-> "CommandExecutionError", result |-> SyntheticResult]
    ELSE [raised |-> "none",
          result |-> [stdout |-> stdout_bytes.text, stderr |-> stderr_bytes.text,
                      returncode |-> returncode]]

\* No call of run() yet.  pc: "idle", "communicate" (awaiting
\* process.communicate()), "wait" (awaiting process.wait() after the kill),
\* "returned" or "raised"; process: "none", "running", "killed" (SIGKILL
\* sent, not reaped yet) or "exited"; returncode is process.returncode
\* (-1: none yet); result is meaningful when pc = "returned".
NoRun ==
    [pc |-> "idle", dry_run |-> FALSE, mutable |-> FALSE, check |-> TRUE,
     capture_output |-> FALSE, timed |-> FALSE, process |-> "none",
     returncode |-> -1, timed_out |-> FALSE, exc |-> "none",
     result |-> SyntheticResult]

\* The except TimeoutError branch up to its first await: process.kill().
\* (OnTimeoutNoKill is a faulty variant that raises at once, leaving the
\* process alone; ThmC14 must tell it from OnTimeout.)
OnTimeoutNoKill(c) ==
    [c EXCEPT !.timed_out = TRUE, !.pc = "raised", !.exc = "CommandExecutionError"]

OnTimeout(c) ==
    [c EXCEPT !.timed_out = TRUE, !.pc = "wait", !.process = "killed"]

\* ------------------------------------------------------------------- state
VARIABLES
    impl,             \* what asyncio.run is given: async_run_batch of
                      \* proxmox_batch.py ("legacy") or of proxmox_cli/core/batch.py
                      \* ("core"), or run_with_options for one host ("single")
    host_filters,     \* async_run_batch(host_filters=...)
    limit,            \* async_run_batch(limit=...): [given, n]
    force_dry_run,    \* async_run_batch(force_dry_run=...)
    bpc,              \* async_run_batch: "start", "loop", "returned", "raised"
    manifest,         \* "unread", "loaded" or "error" (load_manifest raised)
    selected_hosts,   \* the hosts the loop iterates over
    results,          \* results: list[HostResult], as [name, success]
    exit_code,        \* the value async_run_batch returned (-1: none yet)
    error,            \* the exception async_run_batch raised ("none": none)
    loop_closed,      \* asyncio.run has cancelled what was left and closed the loop
    selection,        \* what select_hosts returned or raised in async_run_batch
    run,              \* the slot of selected_hosts whose run_with_options call
                      \* the next four describe (0: none yet)
    opc,              \* where ProxmoxAgent.run is, or how it ended
    options,          \* the MaintenanceRunOptions built for the host
    olog,             \* the commands ProxmoxAgent itself issued, in order
    list_error,       \* per kind: the listing raised ProxmoxCLIError; "host": the
                      \* host's release file or upgrade failed (both are logged)
    batch,            \* per slot and kind: the _run_with_limit call's tasks
    late,             \* per slot: a command of the slot's run reached its host
                      \* after the slot's HostResult was recorded
    attempt,          \* a direct call of attempt_guest_upgrade (remote_maintenance)
    session_run,      \* a direct call of SSHSession.run
    inventory,        \* a direct call of an endpoint of ProxmoxCLIClient
    address,          \* a direct call of extract_ipv4 and of ContainerAgent.fetch_ip
    vm_address        \* a direct call of VirtualMachineAgent.fetch_ip and of
                      \* _discover_vms for one VM

vars == <<impl, host_filters, limit, force_dry_run, bpc, manifest,
          selected_hosts, results, exit_code, error, loop_closed, selection,
          run, opc,
          options, olog, list_error, batch, late, attempt, session_run,
          inventory, address, vm_address>>

batch_vars == <<impl, host_filters, limit, force_dry_run, bpc, manifest,
                selected_hosts, results, exit_code, error, loop_closed,
                selection>>

run_vars == <<run, opc, options, olog, list_error>>

\* What a call of a single function leaves alone.
fleet_vars == <<batch_vars, run_vars, batch, late, attempt>>

call_vars == <<session_run, inventory, address, vm_address>>

\* Host filters tried: none, one host, two hosts in reverse manifest order,
\* one naming an unknown host, and one naming a host twice.
Filters == {<<>>, <<NumHosts>>, <<NumHosts, 1>>, <<1, UnknownHost>>, <<1, 1>>}

Limits == {[given |-> FALSE, n |-> 0]} \cup
          {[given |-> TRUE, n |-> k] : k \in 0..MaxLimit}

\* What a listing can return: the statuses of up to n guests.
RECURSIVE SeqsUpTo(_, _)
SeqsUpTo(S, n) ==
    IF n <= 0 THEN {<<>>}
    ELSE SeqsUpTo(S, n - 1) \cup
         {Append(q, x) : q \in {r \in SeqsUpTo(S, n - 1) : Len(r) = n - 1}, x \in S}

\* ------------------------------------------------------- inventory client
\* JSON values as json.loads gives them, as far as the client looks: t is
\* "list", "mapping" or "scalar" (a number, a string, null); items are the
\* elements of a list; data and result are those keys of a mapping, each
\* present or not and, when present, a list or not.  An element is valid
\* when it passes the endpoint's record model (for the listings: an object
\* whose vmid is an integer); status "" stands for a missing status.
Items ==
    {[valid |-> TRUE, vmid |-> 100, status |-> "running"],
     [valid |-> TRUE, vmid |-> 101, status |-> ""],
     [valid |-> FALSE, vmid |-> 0, status |-> ""]}

ItemLists == SeqsUpTo(Items, MaxItems)

Absent == [present |-> FALSE, is_list |-> FALSE, items |-> <<>>]

Fields ==
    {Absent, [present |-> TRUE, is_list |-> FALSE, items |-> <<>>]} \cup
    {[present |-> TRUE, is_list |-> TRUE, items |-> q] : q \in ItemLists}

Docs ==
    {NoDoc} \cup
    {[t |-> "list", items |-> q, data |-> Absent, result |-> Absent] : q \in ItemLists} \cup
    {[t |-> "mapping", items |-> <<>>, data |-> d, result |-> r] :
        d \in Fields, r \in Fields}

\* What the remote command may write on stdout.
StdoutBytes ==
    {InvalidBytes} \cup
    {[utf8 |-> TRUE, text |-> [kind |-> k, doc |-> NoDoc]] :
        k \in {"empty", "blank", "words"}} \cup
    {[utf8 |-> TRUE, text |-> [kind |-> "json", doc |-> d]] : d \in Docs}

\* str.strip(): text of whitespace only becomes the empty text.
Strip(text) == IF text.kind = "blank" THEN EmptyText ELSE text

\* _run_json: the command is run with check=True (it is not mutable, so it
\* runs under dry-run too); CommandExecutionError becomes ProxmoxCLIError,
\* any other exception of run() leaves _run_json as it is; an empty
\* stripped output and a JSONDecodeError become ProxmoxCLIError.
run_json(returncode, stdout_bytes, stderr_bytes) ==
    LET r    == FinishRun(TRUE, returncode, stdout_bytes, stderr_bytes)
        text == Strip(r.result.stdout)
    IN  IF r.raised = "CommandExecutionError"
        THEN [raised |-> "ProxmoxCLIError", parsed |-> FALSE, payload |-> NoDoc]
        ELSE IF r.raised # "none"
        THEN [raised |-> r.raised, parsed |-> FALSE, payload |-> NoDoc]
        ELSE IF text.kind = "empty"
        THEN [raised |-> "ProxmoxCLIError", parsed |-> FALSE, payload |-> NoDoc]
        ELSE IF text.kind # "json"
        THEN [raised |-> "ProxmoxCLIError", parsed |-> FALSE, payload |-> NoDoc]
        ELSE [raised |-> "none", parsed |-> TRUE, payload |-> text.doc]

\* _extract_list: the payload when it is a list, its "data" when it is a
\* mapping whose "data" is a list, else ProxmoxCLIError.
\* (ExtractListBareOnly is a faulty variant that takes a bare list only;
\* ThmC19 must tell it from extract_list.)
ExtractListBareOnly(payload) ==
    IF payload.t = "list"
    THEN [raised |-> "none", data |-> payload.items]
    ELSE [raised |-> "ProxmoxCLIError", data |-> <<>>]

extract_list(payload) ==
    IF payload.t = "list"
    THEN [raised |-> "none", data |-> payload.items]
    ELSE IF payload.t = "mapping" /\ payload.data.present /\ payload.data.is_list
    THEN [raised |-> "none", data |-> payload.data.items]
    ELSE [raised |-> "ProxmoxCLIError", data |-> <<>>]

\* _extract_agent_payload: of a mapping, "result" when the key is there,
\* else "data" when that key is there, else the mapping itself (which is
\* not a list); anything else as it is.
extract_agent_payload(payload) ==
    IF payload.t = "mapping"
    THEN IF payload.result.present THEN payload.result
         ELSE IF payload.data.present THEN payload.data
         ELSE [present |-> TRUE, is_list |-> FALSE, items |-> <<>>]
    ELSE [present |-> TRUE, is_list |-> payload.t = "list", items |-> payload.items]

\* TypeAdapter(list[...]).validate_python raises ValidationError unless it
\* is given a list whose elements all pass the record model.
Validates(is_list, items) ==
    is_list /\ \A n \in 1..Len(items) : items[n].valid

\* The records list_vms and list_containers build: status=(record.status
\* or "unknown").
GuestRecords(items) ==
    [n \in 1..Len(items) |->
        [vmid |-> items[n].vmid,
         status |-> IF items[n].status = "" THEN "unknown" ELSE items[n].status]]

Endpoints == {"list_vms", "list_containers", "fetch_vm_interfaces"}

\* list_vms, list_containers and fetch_vm_interfaces on what the command
\* gave.
Endpoint(endpoint, returncode, stdout_bytes, stderr_bytes) ==
    LET j == run_json(returncode, stdout_bytes, stderr_bytes)
        l == extract_list(j.payload)
        a == extract_agent_payload(j.payload)
    IN  IF j.raised # "none"
        THEN [raised |-> j.raised, parsed |-> j.parsed, payload |-> j.payload,
              records |-> <<>>]
        ELSE IF endpoint = "fetch_vm_interfaces"
        THEN IF Validates(a.is_list, a.items)
             THEN [raised |-> "none", parsed |-> TRUE, payload |-> j.payload,
                   records |-> a.items]
             ELSE [raised |-> "ProxmoxCLIError", parsed |-> TRUE,
                   payload |-> j.payload, records |-> <<>>]
        ELSE IF l.raised # "none" \/ ~Validates(TRUE, l.data)
        THEN [raised |-> "ProxmoxCLIError", parsed |-> TRUE, payload |-> j.payload,
              records |-> <<>>]
        ELSE [raised |-> "none", parsed |-> TRUE, payload |-> j.payload,
              records |-> GuestRecords(l.data)]

\* No call of an inventory endpoint yet.  pc: "idle" or "over"; returncode,
\* stdout and stderr are what the remote command gave; out is what the
\* endpoint made of it.
NoInventory ==
    [pc |-> "idle", endpoint |-> "list_vms", returncode |-> 0,
     stdout |-> NoBytes, stderr |-> NoBytes,
     out |-> [raised |-> "none", parsed |-> FALSE, payload |-> NoDoc,
              records |-> <<>>]]

\* ------------------------------------------------------ address extraction
\* Output text as a sequence of atoms: a whitespace character, a dot, or a
\* maximal run of other characters, of which only what int() makes of it
\* matters: int says whether int() accepts it, val is the value.
Space == [c |-> "space", int |-> FALSE, val |-> 0]

Dot == [c |-> "dot", int |-> FALSE, val |-> 0]

Word == [c |-> "run", int |-> FALSE, val |-> 0]

Num(n) == [c |-> "run", int |-> TRUE, val |-> n]

\* In a list of parts: the empty string between two dots.
Nothing == [c |-> "nothing", int |-> FALSE, val |-> 0]

\* str.split("."): the runs between the dots, the empty ones too
\* (acc is the run being read).
RECURSIVE SplitDot(_, _)
SplitDot(token, acc) ==
    IF token = <<>> THEN <<acc>>
    ELSE IF Head(token) = Dot THEN <<acc>> \o SplitDot(Tail(token), <<>>)
    ELSE SplitDot(Tail(token), Append(acc, Head(token)))

\* str.split(): the runs between whitespace, the empty ones dropped.
RECURSIVE SplitWhitespace(_, _)
SplitWhitespace(text, acc) ==
    IF text = <<>> THEN IF acc = <<>> THEN <<>> ELSE <<acc>>
    ELSE IF Head(text) = Space
    THEN (IF acc = <<>> THEN <<>> ELSE <<acc>>) \o SplitWhitespace(Tail(text), <<>>)
    ELSE SplitWhitespace(Tail(text), Append(acc, Head(text)))

\* int(part): ValueError on the empty string and on what is no integer.
IntRaises(part) == part = <<>> \/ ~part[1].int

\* 0 <= int(part) <= 255
\* (InRangeOffByOne is a faulty variant letting 256 through; ThmC20 must
\* tell it from InRange.)
InRangeOffByOne(value) == 0 <= value /\ value <= 256

InRange(value) == 0 <= value /\ value <= 255

\* all(0 <= int(part) <= 255 for part in parts): parts are taken in order
\* and all() stops at the first that is out of range, so a ValueError
\* comes only from a part before that one.
RECURSIVE AllInRange(_)
AllInRange(parts) ==
    IF parts = <<>> THEN "True"
    ELSE IF IntRaises(Head(parts)) THEN "ValueError"
    ELSE IF ~InRange(Head(parts)[1].val) THEN "False"
    ELSE AllInRange(Tail(parts))

is_ipv4_address(value) ==
    LET parts == SplitDot(value, <<>>)
    IN  IF Len(parts) # 4 THEN FALSE
        ELSE AllInRange(parts) = "True"

None == [found |-> FALSE, token |-> <<>>]

\* extract_ipv4's loop over output.split()
RECURSIVE ExtractLoop(_)
ExtractLoop(tokens) ==
    IF tokens = <<>> THEN None
    ELSE LET parts == SplitDot(Head(tokens), <<>>)
         IN  IF Len(parts) # 4 THEN ExtractLoop(Tail(tokens))
             ELSE IF AllInRange(parts) = "True"
             THEN [found |-> TRUE, token |-> Head(tokens)]
             ELSE ExtractLoop(Tail(tokens))

extract_ipv4(output) == ExtractLoop(SplitWhitespace(output, <<>>))

\* ContainerAgent.fetch_ip's loop over result.stdout.split()
RECURSIVE FetchLoop(_)
FetchLoop(tokens) ==
    IF tokens = <<>> THEN None
    ELSE IF is_ipv4_address(Head(tokens))
    THEN [found |-> TRUE, token |-> Head(tokens)]
    ELSE FetchLoop(Tail(tokens))

\* ContainerAgent.fetch_ip: `hostname -I` in the container, run with
\* check=True; None when it fails.
fetch_ip(returncode, output) ==
    LET r == FinishRun(TRUE, returncode, [utf8 |-> TRUE, text |-> output], NoBytes)
    IN  IF r.raised = "CommandExecutionError" THEN None
        ELSE FetchLoop(SplitWhitespace(r.result.stdout, <<>>))

\* The tokens tried, each as its list of parts: two addresses, the bounds
\* 0 and 255, parts out of range on either side, three and five parts, a
\* word without dots (also what an IPv6 address is here), a part that is
\* no integer before and after one out of range, and an empty part.
TokenParts ==
    {<<Num(10), Num(0), Num(0), Num(255)>>,
     <<Num(0), Num(0), Num(0), Num(0)>>,
     <<Num(256), Num(0), Num(0), Num(1)>>,
     <<Num(-1), Num(0), Num(0), Num(1)>>,
     <<Num(10), Num(0), Num(0)>>,
     <<Num(10), Num(0), Num(0), Num(0), Num(0)>>,
     <<Word>>,
     <<Num(10), Word, Num(0), Num(0)>>,
     <<Num(300), Word, Num(0), Num(0)>>,
     <<Word, Num(300), Num(0), Num(0)>>,
     <<Num(10), Nothing, Num(0), Num(0)>>}

\* The text of a token: its parts with dots between them.
RECURSIVE JoinDots(_)
JoinDots(parts) ==
    LET first == IF Head(parts) = Nothing THEN <<>> ELSE <<Head(parts)>>
    IN  IF Len(parts) = 1 THEN first
        ELSE first \o <<Dot>> \o JoinDots(Tail(parts))

\* The output made of tokens: whitespace between them (one character, or
\* two when wide), and around them when padded.
RECURSIVE JoinTokens(_, _)
JoinTokens(tokens, wide) ==
    IF tokens = <<>> THEN <<>>
    ELSE IF Len(tokens) = 1 THEN JoinDots(Head(tokens))
    ELSE JoinDots(Head(tokens)) \o (IF wide THEN <<Space, Space>> ELSE <<Space>>)
         \o JoinTokens(Tail(tokens), wide)

OutputOf(tokens, wide, padded) ==
    IF padded THEN <<Space>> \o JoinTokens(tokens, wide) \o <<Space>>
    ELSE JoinTokens(tokens, wide)

\* No address extraction yet.  pc: "idle" or "over"; tokens is what the
\* output was made of; extracted and fetched are what extract_ipv4 and
\* ContainerAgent.fetch_ip returned for it.
NoAddress ==
    [pc |-> "idle", tokens |-> <<>>, output |-> <<>>, returncode |-> 0,
     extracted |-> None, fetched |-> None]

\* --------------------------------------------------- VM address discovery
\* GuestInterfaceAddress values of a guest agent's reply: address and
\* address type as the agent writes them, non-empty strings.
Addresses ==
    {[ip_address |-> "10.0.0.5", ip_address_type |-> "ipv4"],
     [ip_address |-> "10.0.0.6", ip_address_type |-> "IPv4"],
     [ip_address |-> "10.0.0.7", ip_address_type |-> "IPV4"],
     [ip_address |-> "fe80::1", ip_address_type |-> "ipv6"]}

\* GuestInterface.ip_addresses of one interface (empty by default).
AddressLists == SeqsUpTo(Addresses, MaxAddresses)

\* What fetch_vm_interfaces gives: the interfaces, or an exception
\* (ProxmoxCLIError, or one that _run_json lets through).
InterfaceReplies ==
    {[raised |-> e, interfaces |-> <<>>] : e \in {"ProxmoxCLIError", "UnicodeDecodeError"}} \cup
    {[raised |-> "none", interfaces |-> q] : q \in SeqsUpTo(AddressLists, MaxInterfaces)}

\* str.lower() of an address type.
LowerType(t) ==
    CASE t = "IPv4" -> "ipv4"
      [] t = "IPV4" -> "ipv4"
      [] OTHER -> t

\* address.ip_address_type.lower() == "ipv4"
\* (IsIPv4CaseSensitive is a faulty variant comparing without lower();
\* ThmC25 must tell it from IsIPv4.)
IsIPv4CaseSensitive(entry) == entry.ip_address_type = "ipv4"

IsIPv4(entry) == LowerType(entry.ip_address_type) = "ipv4"

NoIp == [found |-> FALSE, ip |-> ""]

\* `for address in iface.ip_addresses`: the first address that passes the
\* test, from position n on.
RECURSIVE AddressLoop(_, _)
AddressLoop(addresses, n) ==
    IF n > Len(addresses) THEN NoIp
    ELSE IF IsIPv4(addresses[n]) THEN [found |-> TRUE, ip |-> addresses[n].ip_address]
    ELSE AddressLoop(addresses, n + 1)

\* `for iface in interfaces` of VirtualMachineAgent.fetch_ip, which returns
\* from inside the loops.
RECURSIVE InterfaceLoop(_, _)
InterfaceLoop(interfaces, n) ==
    IF n > Len(interfaces) THEN NoIp
    ELSE LET hit == AddressLoop(interfaces[n], 1)
         IN  IF hit.found THEN hit ELSE InterfaceLoop(interfaces, n + 1)

\* VirtualMachineAgent.fetch_ip: ProxmoxCLIError is caught and gives None,
\* any other exception leaves fetch_ip.
vm_fetch_ip(reply) ==
    IF reply.raised = "ProxmoxCLIError" THEN [raised |-> "none", found |-> FALSE, ip |-> ""]
    ELSE IF reply.raised # "none" THEN [raised |-> reply.raised, found |-> FALSE, ip |-> ""]
    ELSE LET hit == InterfaceLoop(reply.interfaces, 1)
         IN  [raised |-> "none", found |-> hit.found, ip |-> hit.ip]

\* `for interface in interfaces` of _discover_vms: the inner loop sets ip
\* and breaks at the first address that passes the test; `if ip: break`
\* then leaves the outer loop when ip is a non-empty string.
RECURSIVE DiscoverLoop(_, _, _)
DiscoverLoop(interfaces, n, ip) ==
    IF n > Len(interfaces) THEN ip
    ELSE LET hit  == AddressLoop(interfaces[n], 1)
             next == IF hit.found THEN hit ELSE ip
         IN  IF next.found /\ next.ip # "" THEN next
             ELSE DiscoverLoop(interfaces, n + 1, next)

\* _discover_vms for one VM: the ip of its GuestDiscovery; ProxmoxCLIError
\* is caught with ip still None, any other exception leaves _discover_vms.
discover_vms(reply) ==
    IF reply.raised = "ProxmoxCLIError" THEN [raised |-> "none", found |-> FALSE, ip |-> ""]
    ELSE IF reply.raised # "none" THEN [raised |-> reply.raised, found |-> FALSE, ip |-> ""]
    ELSE LET hit == DiscoverLoop(reply.interfaces, 1, NoIp)
         IN  [raised |-> "none", found |-> hit.found, ip |-> hit.ip]

\* No VM address discovery yet.  pc: "idle" or "over"; reply is what
\* fetch_vm_interfaces gave; fetched and discovered are what
\* VirtualMachineAgent.fetch_ip and _discover_vms made of it.
NoVmAddress ==
    [pc |-> "idle", reply |-> [raised |-> "none", interfaces |-> <<>>],
     fetched |-> [raised |-> "none", found |-> FALSE, ip |-> ""],
     discovered |-> [raised |-> "none", found |-> FALSE, ip |-> ""]]

\* No failure logged yet in a run.
NoErrors == [k \in Kinds \cup {"host"} |-> FALSE]

\* No call of select_hosts yet.
NoSelection == [called |-> FALSE, raised |-> "none", hosts |-> <<>>]

\* host_dry_run keeps the dry_run of the manifest's host the options were
\* built from.
NoOptions ==
    [max_parallel |-> 1, dry_run |-> FALSE, user |-> "root", host_dry_run |-> FALSE]

Init ==
    /\ impl \in {"legacy", "core", "single"}
    /\ host_filters \in Filters
    /\ limit \in Limits
    /\ force_dry_run \in BOOLEAN
    /\ impl = "single" => host_filters = <<>> /\ ~limit.given /\ ~force_dry_run
    /\ bpc = "start"
    /\ manifest = "unread"
    /\ selected_hosts = <<>>
    /\ results = <<>>
    /\ exit_code = -1
    /\ error = "none"
    /\ loop_closed = FALSE
    /\ selection = NoSelection
    /\ run = 0
    /\ opc = "idle"
    /\ options = NoOptions
    /\ olog = <<>>
    /\ list_error = NoErrors
    /\ batch = [s \in Slots |-> [k \in Kinds |-> NoBatch]]
    /\ late = [s \in Slots |-> FALSE]
    /\ attempt = NoAttempt
    /\ session_run = NoRun
    /\ inventory = NoInventory
    /\ address = NoAddress
    /\ vm_address = NoVmAddress

\* ------------------------------------------------------------ batch runner
\* select_hosts of either module: it raises when a requested name is
\* missing from the manifest, ValueError in proxmox_batch and
\* HostSelectionError (a ProxmoxError, no ValueError) in
\* proxmox_cli.core.batch; else it returns every host, or the requested
\* ones in the order requested.
select_hosts(module, hosts, requested) ==
    IF requested = <<>> THEN [raised |-> "none", hosts |-> hosts]
    ELSE IF \E n \in 1..Len(requested) :
                \A m \in 1..Len(hosts) : hosts[m] # requested[n]
         THEN [raised |-> IF module = "legacy" THEN "ValueError"
                          ELSE "HostSelectionError",
               hosts |-> <<>>]
         ELSE [raised |-> "none", hosts |-> requested]

\* selected_hosts[:limit]
Truncate(q, n) == IF Len(q) <= n THEN q ELSE SubSeq(q, 1, n)

\* The exit status after the loop: 3 if any host failed, else 0.
\* (ExitCodeAllFailed is a faulty variant returning 3 only when every host
\* failed; ThmC10 must tell it from ExitCode.)
ExitCodeAllFailed(res) ==
    IF res # <<>> /\ \A n \in 1..Len(res) : ~res[n].success THEN 3 ELSE 0

ExitCode(res) ==
    IF \E n \in 1..Len(res) : ~res[n].success THEN 3 ELSE 0

\* The hosts load_manifest returns, in manifest order.
ManifestHosts == [n \in 1..NumHosts |-> n]

\* async_run_batch of either module up to its loop: the limit check,
\* load_manifest (loaded: it returned), select_hosts, whose exception
\* proxmox_batch raises again as its HostSelectionError and
\* proxmox_cli.core.batch logs before returning 1, the limit, and the empty
\* selection.
Begin(module, filters, lim, loaded) ==
    LET sel == select_hosts(module, ManifestHosts, filters)
        cut == IF lim.given THEN Truncate(sel.hosts, lim.n) ELSE sel.hosts
        none == [bpc |-> "start", manifest |-> "unread", selection |-> NoSelection,
                 selected_hosts |-> <<>>, exit_code |-> -1, error |-> "none"]
        called == [none EXCEPT !.manifest = "loaded",
                               !.selection = [called |-> TRUE, raised |-> sel.raised,
                                              hosts |-> sel.hosts]]
    IN  IF lim.given /\ lim.n <= 0
        THEN [none EXCEPT !.bpc = "raised", !.error = "ValueError"]
        ELSE IF ~loaded
        THEN [none EXCEPT !.bpc = "returned", !.manifest = "error", !.exit_code = 1]
        ELSE IF sel.raised # "none"
        THEN IF module = "legacy"
             THEN [called EXCEPT !.bpc = "raised", !.error = "HostSelectionError"]
             ELSE [called EXCEPT !.bpc = "returned", !.exit_code = 1]
        ELSE IF cut = <<>>
        THEN [called EXCEPT !.bpc = "returned", !.exit_code = 0]
        ELSE [called EXCEPT !.bpc = "loop", !.selected_hosts = cut]

BatchBegin ==
    /\ impl # "single"
    /\ bpc = "start"
    /\ attempt.pc = "idle"
    /\ \E loaded \in BOOLEAN :
        LET b == Begin(impl, host_filters, limit, loaded)
        IN  /\ bpc' = b.bpc
            /\ manifest' = b.manifest
            /\ selection' = b.selection
            /\ selected_hosts' = b.selected_hosts
            /\ exit_code' = b.exit_code
            /\ error' = b.error
    /\ UNCHANGED <<impl, host_filters, limit, force_dry_run, results,
                   loop_closed, run_vars, batch, late, attempt, call_vars>>

\* build_host_options / run_host's options: dry_run = force_dry_run or
\* host.dry_run, user = host.user
\* (BuildOptionsManifestOnly is a faulty variant that forgets
\* force_dry_run; ThmC22 must tell it from build_host_options.)
BuildOptionsManifestOnly(max_parallel, host_dry_run, user) ==
    [max_parallel |-> max_parallel, dry_run |-> host_dry_run,
     user |-> user, host_dry_run |-> host_dry_run]

build_host_options(max_parallel, host_dry_run, user) ==
    [max_parallel |-> max_parallel, dry_run |-> force_dry_run \/ host_dry_run,
     user |-> user, host_dry_run |-> host_dry_run]

\* One iteration of the loop starts: run_host builds the options (the
\* manifest's max_parallel, which its validators keep positive, and the
\* host's dry_run are read here), run_with_options builds the session and
\* the agent, and ProxmoxAgent.run sends the VM listing.
HostBegin ==
    /\ bpc = "loop"
    /\ impl # "single"
    /\ run = Len(results)
    /\ run' = run + 1
    /\ \E mp \in {1, MaxParallel}, hd \in BOOLEAN, user \in Users :
          options' = build_host_options(mp, hd, user)
    /\ olog' = <<CallEntry("list_vms", options'.dry_run)>>
    /\ opc' = "list_vms"
    /\ list_error' = NoErrors
    /\ UNCHANGED <<batch_vars, batch, late, attempt, call_vars>>

\* asyncio.run(run_with_options(options)) for one host: MaintenanceRunOptions
\* is a plain dataclass, so max_parallel is whatever the caller built it
\* with (the command lines keep it >= 1, a direct caller need not).
RunBegin ==
    /\ impl = "single"
    /\ bpc = "start"
    /\ attempt.pc = "idle"
    /\ bpc' = "loop"
    /\ run' = 1
    /\ \E mp \in {-1, 0, MaxParallel}, dry_run \in BOOLEAN, user \in Users :
          options' = [max_parallel |-> mp, dry_run |-> dry_run, user |-> user,
                      host_dry_run |-> dry_run]
    /\ olog' = <<CallEntry("list_vms", options'.dry_run)>>
    /\ opc' = "list_vms"
    /\ list_error' = NoErrors
    /\ UNCHANGED <<impl, host_filters, limit, force_dry_run, manifest,
                   selected_hosts, results, exit_code, error, loop_closed,
                   selection, batch, late, attempt, call_vars>>

\* `for host in selected_hosts` is exhausted once every selected host has
\* its HostResult; nothing else leaves the loop (it has no break and no
\* return, and the handler around run_host catches Exception).
\* (LoopOverAtFailure is a faulty variant that leaves the loop at the first
\* failed host; ThmC26 must tell it from LoopOver.)
LoopOverAtFailure(res, hosts) ==
    Len(res) = Len(hosts) \/ ~res[Len(res)].success

LoopOver(res, hosts) == Len(res) = Len(hosts)

\* run_with_options: `return 0` once agent.run() returned, whatever the run
\* logged (errors: the failures it swallowed).
\* (ReturnCodeOfErrors is a faulty variant returning 1 after a swallowed
\* failure; ThmC29 must tell it from ReturnCode.)
ReturnCodeOfErrors(errors) ==
    IF \E k \in DOMAIN errors : errors[k] THEN 1 ELSE 0

ReturnCode(errors) == 0

\* run_host: (False, message) when run_with_options raised or returned a
\* status other than 0, else (True, None).
run_host(raised, return_code) == ~raised /\ return_code = 0

\* run_with_options is over for the current host (success: it returned 0;
\* failure: it raised).  In a batch run_host catches the exception and the
\* loop records the HostResult, and after the last host async_run_batch
\* returns its exit status; for one host the value or the exception is
\* what asyncio.run gets.
FinishHost(success) ==
    IF impl = "single"
    THEN /\ bpc' = IF success THEN "returned" ELSE "raised"
         /\ exit_code' = IF success THEN 0 ELSE exit_code
         /\ error' = IF success THEN error ELSE "Exception"
         /\ UNCHANGED <<impl, host_filters, limit, force_dry_run, manifest,
                        selected_hosts, results, loop_closed, selection>>
    ELSE LET res == Append(results, [name |-> selected_hosts[run], success |-> success])
         IN  /\ results' = res
             /\ IF LoopOver(res, selected_hosts)
                THEN bpc' = "returned" /\ exit_code' = ExitCode(res)
                ELSE UNCHANGED <<bpc, exit_code>>
             /\ UNCHANGED <<impl, host_filters, limit, force_dry_run, manifest,
                            selected_hosts, error, loop_closed, selection>>

\* ------------------------------------------------ guest upgrade, called alone
\* attempt_guest_upgrade is called: the session is made for default_user and
\* upgrade_guest_operating_system reads the release file.
AttemptBegin ==
    /\ bpc = "start"
    /\ attempt.pc = "idle"
    /\ \E dry_run \in BOOLEAN, default_user \in Users :
          attempt' = IssueRelease([NoAttempt EXCEPT !.dry_run = dry_run,
                                                    !.user = default_user])
    /\ UNCHANGED <<batch_vars, run_vars, batch, late, call_vars>>

\* The read of the release file ended: a failed read or an unsupported OS
\* makes upgrade_guest_operating_system return False; else the upgrade
\* command is sent, which under dry-run succeeds at once.
GuestReleaseCompletes ==
    /\ attempt.pc = "guest_release"
    /\ \E proc \in ProcOutcomes, os_release \in OsReleases,
          isatty \in BOOLEAN, typed \in Typed :
        LET r  == SSHSessionRun(attempt.dry_run, Mutable("guest_release"), proc)
            pm == determine_package_manager(os_release)
            e  == GuestEntry("guest_upgrade", attempt,
                             build_upgrade_command(pm, attempt.user # "root"))
            a0 == [attempt EXCEPT !.seen = Append(@,
                      [session |-> SessionOf(attempt), os_release |-> os_release,
                       package_manager |-> pm])]
            a1 == [a0 EXCEPT !.log = Append(attempt.log, e)]
        IN  attempt' =
              IF r.result = "failed"
              THEN AfterFailure(attempt, "command", isatty, typed)
              ELSE IF pm = "None"
              THEN AfterFailure(a0, "unsupported", isatty, typed)
              ELSE IF e.spawned THEN [a1 EXCEPT !.pc = "guest_upgrade"]
              ELSE [a1 EXCEPT !.pc = "done"]
    /\ UNCHANGED <<batch_vars, run_vars, batch, late, call_vars>>

\* The upgrade command ended.
GuestUpgradeCompletes ==
    /\ attempt.pc = "guest_upgrade"
    /\ \E proc \in ProcOutcomes, isatty \in BOOLEAN, typed \in Typed :
        LET r == SSHSessionRun(attempt.dry_run, Mutable("guest_upgrade"), proc)
        IN  attempt' =
              IF r.result = "failed"
              THEN AfterFailure(attempt, "command", isatty, typed)
              ELSE [attempt EXCEPT !.pc = "done"]
    /\ UNCHANGED <<batch_vars, run_vars, batch, late, call_vars>>

\* ------------------------------------------------ SSHSession.run, called alone
\* run() is called: under dry-run a mutable command returns the synthetic
\* result at once; else the ssh process is spawned and run() awaits
\* communicate(), under asyncio.timeout when timeout_seconds is given.
RunCalled ==
    /\ session_run.pc = "idle"
    /\ inventory.pc = "idle"
    /\ address.pc = "idle"
    /\ vm_address.pc = "idle"
    /\ \E dry_run, mutable, check, capture_output, timed \in BOOLEAN :
        LET c == [NoRun EXCEPT !.dry_run = dry_run, !.mutable = mutable,
                               !.check = check, !.capture_output = capture_output,
                               !.timed = timed]
        IN  session_run' =
              IF dry_run /\ mutable THEN [c EXCEPT !.pc = "returned"]
              ELSE [c EXCEPT !.pc = "communicate", !.process = "running"]
    /\ UNCHANGED <<fleet_vars, inventory, address, vm_address>>

\* The process exited and communicate() returned what it wrote: run()
\* decodes, checks the status and returns or raises.
CommunicateReturns ==
    /\ session_run.pc = "communicate"
    /\ \E returncode \in ExitStatuses, out \in SampleBytes, err \in SampleBytes :
        LET stdout_bytes == IF session_run.capture_output THEN out ELSE NoBytes
            r == FinishRun(session_run.check, returncode, stdout_bytes, err)
        IN  session_run' =
              [session_run EXCEPT
                 !.process = "exited", !.returncode = returncode,
                 !.pc = IF r.raised = "none" THEN "returned" ELSE "raised",
                 !.exc = r.raised, !.result = r.result]
    /\ UNCHANGED <<fleet_vars, inventory, address, vm_address>>

\* asyncio.timeout expired while the process was still running: the
\* TimeoutError is caught and the process killed.
TimeoutExpires ==
    /\ session_run.pc = "communicate"
    /\ session_run.timed
    /\ session_run' = OnTimeout(session_run)
    /\ UNCHANGED <<fleet_vars, inventory, address, vm_address>>

\* process.wait() returned: the killed process was reaped, and run() raises
\* CommandExecutionError("Command timed out ...").
WaitReturns ==
    /\ session_run.pc = "wait"
    /\ session_run' = [session_run EXCEPT !.process = "exited", !.returncode = -9,
                                          !.pc = "raised",
                                          !.exc = "CommandExecutionError"]
    /\ UNCHANGED <<fleet_vars, inventory, address, vm_address>>

\* ------------------------------------------ inventory endpoints, called alone
\* An endpoint is called and the remote command gives its status and output.
InventoryCalled ==
    /\ inventory.pc = "idle"
    /\ session_run.pc = "idle"
    /\ address.pc = "idle"
    /\ vm_address.pc = "idle"
    /\ \E endpoint \in Endpoints, returncode \in ExitStatuses,
          stdout_bytes \in StdoutBytes, stderr_bytes \in {NoBytes, InvalidBytes} :
          inventory' =
            [pc |-> "over", endpoint |-> endpoint, returncode |-> returncode,
             stdout |-> stdout_bytes, stderr |-> stderr_bytes,
             out |-> Endpoint(endpoint, returncode, stdout_bytes, stderr_bytes)]
    /\ UNCHANGED <<fleet_vars, session_run, address, vm_address>>

\* ------------------------------------------- address extraction, called alone
\* extract_ipv4 is called on an output, and ContainerAgent.fetch_ip runs a
\* `hostname -I` that writes the same output and exits with returncode.
AddressCalled ==
    /\ address.pc = "idle"
    /\ session_run.pc = "idle"
    /\ inventory.pc = "idle"
    /\ vm_address.pc = "idle"
    /\ \E tokens \in SeqsUpTo(TokenParts, MaxTokens), wide, padded \in BOOLEAN,
          returncode \in ExitStatuses :
        LET output == OutputOf(tokens, wide, padded)
        IN  address' = [pc |-> "over", tokens |-> tokens, output |-> output,
                        returncode |-> returncode,
                        extracted |-> extract_ipv4(output),
                        fetched |-> fetch_ip(returncode, output)]
    /\ UNCHANGED <<fleet_vars, session_run, inventory, vm_address>>

\* --------------------------------------------- VM address discovery, called alone
\* VirtualMachineAgent.fetch_ip and _discover_vms are called for a VM whose
\* interface query gives reply.
VmAddressCalled ==
    /\ vm_address.pc = "idle"
    /\ session_run.pc = "idle"
    /\ inventory.pc = "idle"
    /\ address.pc = "idle"
    /\ \E reply \in InterfaceReplies :
        vm_address' = [pc |-> "over", reply |-> reply,
                       fetched |-> vm_fetch_ip(reply),
                       discovered |-> discover_vms(reply)]
    /\ UNCHANGED <<fleet_vars, session_run, inventory, address>>

\* ------------------------------------------------------- fleet orchestrator
Batch(k) == IF k = "vm" THEN "vm_batch" ELSE "ct_batch"

Listing(k) == IF k = "vm" THEN "list_vms" ELSE "list_cts"

\* ProxmoxAgent.run after the batch of kind k is over: the container
\* listing after the VMs, upgrade_proxmox_host after the containers.
NextCommand(k) == IF k = "vm" THEN "list_cts" ELSE "host_release"

Tasks(s, k) == batch[s][k].tasks

TaskIds(s, k) == 1..Len(batch[s][k].tasks)

\* _run_with_limit's gather returns once every worker has returned.
\* (GatherReturnsNoWait is a faulty variant that does not wait; ThmC8 must
\* tell it from GatherReturns.)
GatherReturnsNoWait(s, k) == TRUE

GatherReturns(s, k) ==
    \A i \in TaskIds(s, k) : Tasks(s, k)[i].pc = "returned"

\* gather raises the first exception a worker raised.
GatherRaises(s, k) ==
    \E i \in TaskIds(s, k) : Tasks(s, k)[i].pc = "raised"

\* worker(): the tasks that can pass `async with semaphore` do so in the
\* order they arrived (asyncio.Semaphore wakes its waiters first in, first
\* out) and each runs reconcile() to its first suspension.  The loop runs
\* these steps before the callback that wakes gather: a task's first step is
\* scheduled when gather creates it, a waiter's wake-up when release() is
\* called, which is before the releasing task is marked done.
RECURSIVE Admit(_)
Admit(b) ==
    LET waiting == {i \in 1..Len(b.tasks) : b.tasks[i].pc = "waiting"}
    IN  IF b.sem = 0 \/ waiting = {} THEN b
        ELSE LET i  == CHOOSE n \in waiting : \A m \in waiting : n <= m
                 w2 == Reconcile(b.tasks[i], b.dry_run)
             IN  Admit([b EXCEPT !.tasks[i] = w2,
                                 !.sem = IF Finished(w2) THEN @ ELSE @ - 1])

\* The reconciler tasks created so far in the run of the batch.
RECURSIVE TasksInSlots(_)
TasksInSlots(s) ==
    IF s = 0 THEN 0
    ELSE Len(batch[s]["vm"].tasks) + Len(batch[s]["ct"].tasks) + TasksInSlots(s - 1)

TasksCreated == TasksInSlots(NumHosts)

\* The guests listed over a whole run: MaxGuests in a batch of hosts, one
\* more when a single host is run, so that its gate can hold a guest back
\* behind two others.
GuestBound == IF impl = "single" THEN MaxGuests + 1 ELSE MaxGuests

\* list_vms / list_containers ends (the command, _run_json, _extract_list and
\* the schema validation): an inventory error gives the empty list.  An
\* empty batch makes _run_with_limit return at once and run() goes on to
\* its next command; otherwise the workers are created and gathered, and
\* those the gate lets in take their first step.
ListCompletes(k) ==
    /\ opc = Listing(k)
    /\ \E proc \in ProcOutcomes, valid \in BOOLEAN,
          listing \in SeqsUpTo(Statuses, GuestBound - TasksCreated) :
        LET r      == SSHSessionRun(options.dry_run, Mutable(Listing(k)), proc)
            failed == r.result = "failed" \/ ~valid
            guests == IF failed THEN <<>> ELSE listing
        IN  /\ list_error' = [list_error EXCEPT ![k] = failed]
            /\ IF guests = <<>>
               THEN /\ olog' = Append(olog, CallEntry(NextCommand(k), options.dry_run))
                    /\ opc' = NextCommand(k)
                    /\ UNCHANGED batch
               ELSE /\ opc' = Batch(k)
                    /\ batch' = [batch EXCEPT ![run][k] = Admit(
                          [max_parallel |-> options.max_parallel,
                           dry_run |-> options.dry_run,
                           sem |-> ClampParallel(options.max_parallel),
                           tasks |-> [i \in 1..Len(guests) |-> NewWorker(guests[i])]])]
                    /\ UNCHANGED olog
    /\ UNCHANGED <<batch_vars, run, options, late, attempt, call_vars>>

\* The command a reconciler waits for ends, and reconcile() runs to its next
\* suspension or to its end, where the worker leaves the semaphore and the
\* next waiter is let in.
CommandCompletes(s, k, i) ==
    /\ ~loop_closed
    /\ i \in TaskIds(s, k)
    /\ InReconcile(Tasks(s, k)[i])
    /\ \E proc \in ProcOutcomes, ip \in BOOLEAN :
        LET w   == Tasks(s, k)[i]
            dry == batch[s][k].dry_run
            r   == SSHSessionRun(dry, Mutable(CmdOf(w.pc)), proc)
            w1  == [w EXCEPT !.failed = IF r.result = "failed" THEN w.pc ELSE @]
            w2  == After(w1, w.pc, r.result, dry, ip)
            b2  == Admit([batch[s][k] EXCEPT
                            !.tasks[i] = w2,
                            !.sem = IF Finished(w2) THEN @ + 1 ELSE @])
        IN  /\ batch' = [batch EXCEPT ![s][k] = b2]
            /\ late' = [late EXCEPT ![s] =
                  @ \/ (/\ Len(results) >= s
                        /\ \E j \in TaskIds(s, k) :
                              IssuedSpawned(Tasks(s, k)[j], b2.tasks[j]))]
    /\ UNCHANGED <<batch_vars, run_vars, attempt, call_vars>>

\* The task awaiting gather wakes: with the first exception, which leaves
\* run() and run_with_options() and is caught by run_host (the other workers
\* stay scheduled on the loop), or with every worker done.
GatherWakes(k) ==
    /\ opc = Batch(k)
    /\ GatherRaises(run, k) \/ GatherReturns(run, k)
    /\ IF GatherRaises(run, k)
       THEN /\ opc' = "raised"
            /\ FinishHost(run_host(TRUE, 0))
            /\ UNCHANGED olog
       ELSE /\ opc' = NextCommand(k)
            /\ olog' = Append(olog, CallEntry(NextCommand(k), options.dry_run))
            /\ UNCHANGED batch_vars
    /\ UNCHANGED <<run, options, list_error, batch, late, attempt, call_vars>>

\* upgrade_proxmox_host after `cat /etc/os-release` ended: a failed read or
\* an unsupported OS ends it; else the upgrade command is sent (under
\* dry-run it returns at once).  run() then returns and run_with_options
\* returns 0.
HostReleaseCompletes ==
    /\ opc = "host_release"
    /\ \E proc \in ProcOutcomes, os_release \in OsReleases :
        LET r == SSHSessionRun(options.dry_run, Mutable("host_release"), proc)
            pm == determine_package_manager(os_release)
            c == CallEntry("host_upgrade", options.dry_run)
            e == [cmd |-> c.cmd, mutable |-> c.mutable, spawned |-> c.spawned,
                  user |-> options.user, text |-> build_upgrade_command(pm, FALSE)]
            errors == [list_error EXCEPT !["host"] = TRUE]
        IN  IF r.result = "failed" \/ pm = "None"
            THEN /\ opc' = "returned"
                 /\ list_error' = errors
                 /\ FinishHost(run_host(FALSE, ReturnCode(errors)))
                 /\ UNCHANGED olog
            ELSE IF ~e.spawned
            THEN /\ olog' = Append(olog, e)
                 /\ opc' = "returned"
                 /\ FinishHost(run_host(FALSE, ReturnCode(list_error)))
                 /\ UNCHANGED list_error
            ELSE /\ olog' = Append(olog, e)
                 /\ opc' = "host_upgrade"
                 /\ UNCHANGED <<batch_vars, list_error>>
    /\ UNCHANGED <<run, options, batch, late, attempt, call_vars>>

\* The host upgrade command ended; its failure is logged, not raised.
HostUpgradeCompletes ==
    /\ opc = "host_upgrade"
    /\ opc' = "returned"
    /\ \E proc \in ProcOutcomes :
        LET r == SSHSessionRun(options.dry_run, Mutable("host_upgrade"), proc)
            errors == [list_error EXCEPT !["host"] = r.result = "failed"]
        IN  /\ list_error' = errors
            /\ FinishHost(run_host(FALSE, ReturnCode(errors)))
    /\ UNCHANGED <<run, options, olog, batch, late, attempt, call_vars>>

\* asyncio.run ends: async_run_batch is over, the tasks still on the loop
\* are cancelled (a worker inside `async with` releases the semaphore) and
\* the loop is closed.
Cancel(w) == IF Finished(w) THEN w ELSE [w EXCEPT !.pc = "cancelled"]

LoopShutdown ==
    /\ bpc \in {"returned", "raised"}
    /\ ~loop_closed
    /\ loop_closed' = TRUE
    /\ batch' = [s \in Slots |-> [k \in Kinds |->
          [batch[s][k] EXCEPT
             !.tasks = [i \in TaskIds(s, k) |-> Cancel(Tasks(s, k)[i])],
             !.sem = @ + Cardinality({i \in TaskIds(s, k) : InReconcile(Tasks(s, k)[i])})]]]
    /\ UNCHANGED <<impl, host_filters, limit, force_dry_run, bpc, manifest,
                   selected_hosts, results, exit_code, error, selection,
                   run_vars, late, attempt, call_vars>>

Next ==
    \/ BatchBegin
    \/ HostBegin
    \/ RunBegin
    \/ \E k \in Kinds : ListCompletes(k)
    \/ \E s \in Slots, k \in Kinds, i \in GuestIds : CommandCompletes(s, k, i)
    \/ \E k \in Kinds : GatherWakes(k)
    \/ HostReleaseCompletes
    \/ HostUpgradeCompletes
    \/ LoopShutdown
    \/ AttemptBegin
    \/ GuestReleaseCompletes
    \/ GuestUpgradeCompletes

\* The run of one host, and the runs of every manifest host (no filter, no
\* limit) by proxmox_batch.py.
InitFleet ==
    Init /\ impl \in {"legacy", "single"} /\ host_filters = <<>> /\ ~limit.given

Spec == InitFleet /\ [][Next]_vars

\* Every way the batch is called too, by either implementation.
SpecBatch == Init /\ [][Next]_vars

\* The functions below the orchestrator, each called alone.
InitCalls == Init /\ impl = "single"

NextCalls ==
    \/ RunCalled
    \/ CommunicateReturns
    \/ TimeoutExpires
    \/ WaitReturns
    \/ InventoryCalled
    \/ AddressCalled
    \/ VmAddressCalled

SpecCalls == InitCalls /\ [][NextCalls]_vars

\* -------------------------------------------------------------- observations
\* The commands of a log, in order.
Commands(log) == [n \in 1..Len(log) |-> log[n].cmd]

\* cmd was issued on the log's session.
Issued(log, cmd) == \E n \in 1..Len(log) : log[n].cmd = cmd

\* How often cmd was issued.
Count(log, cmd) == Cardinality({n \in 1..Len(log) : log[n].cmd = cmd})

\* The run of the current host is over (run_with_options returned or raised).
RunOver == opc \in {"returned", "raised"}

\* Reconcilers of a batch inside reconcile().
Inside(s, k) == {i \in TaskIds(s, k) : InReconcile(Tasks(s, k)[i])}

\* ------------------------------------------------------------------- claims
\* C2: SSHSession.run spawns a remote process for a command if and only if
\* not (session.dry_run and mutable), on the host session (orchestrator and
\* reconciler commands) and on the guest-upgrade sessions; a call that
\* spawns nothing returns the synthetic zero-exit, empty-output result
\* whatever a process would have done.
Obeys(e, dry_run) ==
    /\ e.spawned <=> ~(dry_run /\ e.mutable)
    /\ ~e.spawned =>
         \A proc \in ProcOutcomes :
            SSHSessionRun(dry_run, e.mutable, proc).result = "synthetic"

ThmC2 ==
    /\ \A n \in 1..Len(olog) : Obeys(olog[n], options.dry_run)
    /\ \A s \in Slots, k \in Kinds : \A i \in TaskIds(s, k) :
         \A n \in 1..Len(Tasks(s, k)[i].log) :
            Obeys(Tasks(s, k)[i].log[n], batch[s][k].dry_run)
    /\ \A n \in 1..Len(attempt.log) : Obeys(attempt.log[n], attempt.dry_run)

\* A dry-run host whose listings ran as processes and whose host upgrade did
\* not, after a dry-run host whose guest stop was not run either.
WitC2 ==
    /\ options.dry_run
    /\ \E n \in 1..Len(olog) :
         /\ olog[n].cmd = "host_upgrade" /\ ~olog[n].spawned
         /\ \A m \in 1..(n - 1) : ~olog[m].mutable /\ olog[m].spawned
    /\ \E s \in Slots, k \in Kinds : \E i \in TaskIds(s, k) :
         /\ batch[s][k].dry_run
         /\ Tasks(s, k)[i].log # <<>>
         /\ Tasks(s, k)[i].log[1].cmd = "shutdown"
         /\ ~Tasks(s, k)[i].log[1].spawned

\* C3: in every batch (the VM reconcilers or the container reconcilers of one
\* host run), the reconcilers that entered reconcile() and have not left it
\* number at most max(1, max_parallel), max_parallel <= 0 included.
ThmC3 ==
    \A s \in Slots, k \in Kinds :
        Cardinality(Inside(s, k)) <= Max(1, batch[s][k].max_parallel)

\* A batch configured with max_parallel <= 0 with one reconciler inside
\* reconcile() and another kept waiting at the gate.
WitC3 ==
    \E s \in Slots, k \in Kinds :
        /\ batch[s][k].max_parallel <= 0
        /\ Cardinality(Inside(s, k)) = 1
        /\ \E i \in TaskIds(s, k) : Tasks(s, k)[i].pc = "waiting"

\* C4: when a reconciler of a batch raises, no other reconciler of the batch
\* is cancelled, skipped or left unstarted: each runs to its own end.
CexC4 ==
    \A s \in Slots, k \in Kinds :
        (\E i \in TaskIds(s, k) : Tasks(s, k)[i].pc = "raised")
        => \A j \in TaskIds(s, k) : Tasks(s, k)[j].pc # "cancelled"

\* C5: when a VM's stop, backup or start failed, the run of its host still
\* lists the containers and still performs the host upgrade.
CexC5 ==
    (/\ RunOver
     /\ \E i \in TaskIds(run, "vm") :
          Tasks(run, "vm")[i].exc = "CommandExecutionError")
    => Issued(olog, "list_cts") /\ Issued(olog, "host_release")

\* C6: a run whose VM listing raised an inventory error still lists the
\* containers and performs the host upgrade, a run whose container listing
\* raised still performs the host upgrade, and the run does not raise.
CexC6 ==
    RunOver =>
        /\ list_error["vm"] =>
              /\ Issued(olog, "list_cts")
              /\ Issued(olog, "host_release")
              /\ opc = "returned"
        /\ list_error["ct"] =>
              /\ Issued(olog, "host_release")
              /\ opc = "returned"

\* C7: without dry-run and with no command failing, reconcile() returns
\* normally after issuing, for a guest found running, shutdown, backup,
\* start, the address query and an upgrade attempt if an address was found,
\* and for a guest found stopped, backup, start, the address query, the
\* optional upgrade attempt and a shutdown.
ExpectedCommands(was_running) ==
    IF was_running
    THEN {<<"shutdown", "backup", "start", "fetch_ip">>,
          <<"shutdown", "backup", "start", "fetch_ip", "guest_release">>}
    ELSE {<<"backup", "start", "fetch_ip", "shutdown">>,
          <<"backup", "start", "fetch_ip", "guest_release", "shutdown">>}

CexC7 ==
    \A s \in Slots, k \in Kinds : \A i \in TaskIds(s, k) :
        LET w == Tasks(s, k)[i]
        IN  (/\ ~batch[s][k].dry_run
             /\ w.pc \in {"returned", "raised"}
             /\ w.exc # "CommandExecutionError")
            => /\ w.pc = "returned"
               /\ Commands(w.log) \in ExpectedCommands(w.was_running)

\* C8: in one host run the container listing is sent only once every VM
\* reconciler is over, container reconcilers exist only after the container
\* listing, the host upgrade starts only once every container reconciler is
\* over, the orchestrator's commands come in the order VM listing, container
\* listing, release read, host upgrade, and each is sent at most once.
ThmC8 ==
    /\ Issued(olog, "list_cts") =>
          \A i \in TaskIds(run, "vm") : Finished(Tasks(run, "vm")[i])
    /\ run > 0 /\ Tasks(run, "ct") # <<>> => Issued(olog, "list_cts")
    /\ Issued(olog, "host_release") =>
          /\ Issued(olog, "list_cts")
          /\ \A k \in Kinds : \A i \in TaskIds(run, k) : Finished(Tasks(run, k)[i])
    /\ \A n, m \in 1..Len(olog) :
          /\ olog[n].cmd = "list_vms" => n = 1
          /\ olog[n].cmd = "host_upgrade" => n = Len(olog) /\ Issued(olog, "host_release")
          /\ olog[n].cmd = "list_cts" /\ olog[m].cmd = "host_release" => n < m
    /\ \A c \in {"list_vms", "list_cts", "host_release", "host_upgrade"} :
          Count(olog, c) <= 1

\* A run past its VM phase whose container reconciler has a command in
\* flight, the host upgrade not begun.
WitC8 ==
    /\ opc = "ct_batch"
    /\ Commands(olog) = <<"list_vms", "list_cts">>
    /\ \E i \in TaskIds(run, "ct") : InReconcile(Tasks(run, "ct")[i])

\* C9: every remote command of a host's run, those of the reconcilers it
\* started included, happens before the host's result is recorded (and so
\* before the first command of the next host).
CexC9 == \A s \in Slots : ~late[s]

\* C10: async_run_batch returns 3 exactly when some selected host's run
\* failed, 0 when every selected host succeeded (or none was selected), and
\* 1 when the manifest cannot be loaded, no host having been run.
ThmC10 ==
    impl # "single" =>
    /\ bpc = "returned" =>
          /\ exit_code = 3 <=> \E n \in 1..Len(results) : ~results[n].success
          /\ (/\ manifest = "loaded"
               /\ select_hosts(impl, ManifestHosts, host_filters).raised = "none"
               /\ \A n \in 1..Len(results) : results[n].success)
             => exit_code = 0
          /\ Len(results) = Len(selected_hosts)
    /\ manifest = "error" =>
          /\ bpc = "returned" /\ exit_code = 1
          /\ run = 0 /\ results = <<>>

\* A batch that returned 3 with one host succeeded and another failed.
WitC10 ==
    /\ bpc = "returned"
    /\ exit_code = 3
    /\ \E n, m \in 1..Len(results) : results[n].success /\ ~results[m].success

\* C11: once the backup command of a guest has failed, reconcile() has
\* raised CommandExecutionError and the backup is the last command issued
\* for the guest: no start, address query, upgrade or final stop follows.
ThmC11 ==
    \A s \in Slots, k \in Kinds : \A i \in TaskIds(s, k) :
        LET w == Tasks(s, k)[i]
        IN  w.failed = "backup" =>
              /\ w.pc = "raised"
              /\ w.exc = "CommandExecutionError"
              /\ w.log[Len(w.log)].cmd = "backup"

\* A guest found stopped whose backup, its first command, failed.
WitC11 ==
    \E s \in Slots, k \in Kinds : \E i \in TaskIds(s, k) :
        LET w == Tasks(s, k)[i]
        IN  /\ w.failed = "backup"
            /\ ~w.was_running
            /\ Commands(w.log) = <<"backup">>

\* C12: a reconciliation that ended by itself, whose start command was
\* issued and in which neither stop, backup nor start failed, has returned
\* normally, and for a guest found not running its last command is the
\* final stop (a failed address query or upgrade changes nothing to that).
CexC12 ==
    \A s \in Slots, k \in Kinds : \A i \in TaskIds(s, k) :
        LET w == Tasks(s, k)[i]
        IN  (/\ w.pc \in {"returned", "raised"}
             /\ Issued(w.log, "start")
             /\ w.failed \notin {"stop", "backup", "start"})
            => /\ w.pc = "returned"
               /\ ~w.was_running => w.log[Len(w.log)].cmd = "shutdown"

\* C15: a retry session is made only after the first session failed with a
\* command-execution failure (not after an unsupported OS) and only with a
\* terminal attached; at most two sessions are used per call, and the
\* release file is read at most once on each.
CexC15 ==
    /\ attempt.retry => attempt.why = "command" /\ attempt.tty
    /\ Count(attempt.log, "guest_release") <= 2
    /\ \A n \in 1..Len(attempt.log) : attempt.log[n].session \in {1, 2}

\* The families of C16 in their fixed order, and the identifiers of each.
FamilyOrder == <<"apk", "apt", "dnf", "pacman", "zypper">>

FamilyIds(pm) ==
    CASE pm = "apk" -> {"alpine"}
      [] pm = "apt" -> {"debian", "ubuntu"}
      [] pm = "dnf" -> {"fedora", "rhel", "centos"}
      [] pm = "pacman" -> {"arch"}
      [] pm = "zypper" -> {"suse", "opensuse", "sles"}

\* The ID and the ID_LIKE tokens of a release file, whatever their case.
ReleaseTokens(os_release) ==
    {Lower(os_release.ID)} \cup
    {Lower(os_release.ID_LIKE[n]) : n \in 1..Len(os_release.ID_LIKE)}

Matching(os_release) ==
    {n \in 1..Len(FamilyOrder) :
        FamilyIds(FamilyOrder[n]) \cap ReleaseTokens(os_release) # {}}

ExpectedManager(os_release) ==
    IF Matching(os_release) = {} THEN "None"
    ELSE FamilyOrder[CHOOSE n \in Matching(os_release) :
                        \A m \in Matching(os_release) : n <= m]

\* C16: the package manager determined from a release file is that of the
\* first family, in the order apk, apt, dnf, pacman, zypper, matched by the
\* ID or an ID_LIKE token, and None when no family matches; on a session
\* where it was None no upgrade command was issued and the call went on
\* without an exception (it is over, or the retry session is in use).
ThmC16 ==
    \A n \in 1..Len(attempt.seen) :
        LET t == attempt.seen[n]
        IN  /\ t.package_manager = ExpectedManager(t.os_release)
            /\ t.package_manager = "None" =>
                  /\ \A e \in 1..Len(attempt.log) :
                        attempt.log[e].session = t.session
                           => attempt.log[e].cmd # "guest_upgrade"
                  /\ attempt.pc = "done" \/ SessionOf(attempt) > t.session

\* Both cases at once: the first session read an unknown OS (None, no
\* upgrade command), the retry session a release file matching Arch and
\* SUSE, for which pacman was chosen and the upgrade sent.
WitC16 ==
    /\ Len(attempt.seen) = 2
    /\ attempt.seen[1].os_release.ID = "plan9"
    /\ attempt.seen[1].package_manager = "None"
    /\ attempt.seen[2].os_release.ID_LIKE = <<"arch", "suse">>
    /\ attempt.seen[2].package_manager = "pacman"
    /\ Commands(attempt.log) = <<"guest_release", "guest_release", "guest_upgrade">>

\* C17: every guest upgrade command is sudo-prefixed exactly when the user
\* of the session it was sent on is not root, and no host upgrade command
\* is sudo-prefixed, whoever the host session's user is.
ThmC17 ==
    /\ \A n \in 1..Len(attempt.log) :
          attempt.log[n].cmd = "guest_upgrade"
             => (attempt.log[n].text.sudo <=> attempt.log[n].user # "root")
    /\ \A n \in 1..Len(olog) :
          olog[n].cmd = "host_upgrade" => ~olog[n].text.sudo

\* The retry session of the alternate user "ops" sent a sudo-prefixed
\* upgrade after root's session, which had sent an unprefixed one.
WitC17 ==
    \E m, n \in 1..Len(attempt.log) :
        /\ attempt.log[m].cmd = "guest_upgrade"
        /\ attempt.log[m].session = 1
        /\ attempt.log[m].user = "root"
        /\ ~attempt.log[m].text.sudo
        /\ attempt.log[n].cmd = "guest_upgrade"
        /\ attempt.log[n].session = 2
        /\ attempt.log[n].user = "ops"
        /\ attempt.log[n].text.sudo

\* C13: once a call of run() that spawned a process, and did not time
\* out, is over: a zero exit status has not raised; a non-zero one has
\* raised CommandExecutionError when check was true, and when check was
\* false run() has returned a CommandResult carrying that status.
CexC13 ==
    (/\ session_run.pc \in {"returned", "raised"}
     /\ session_run.process = "exited"
     /\ ~session_run.timed_out)
    => /\ session_run.returncode = 0 => session_run.pc = "returned"
       /\ (session_run.returncode # 0 /\ session_run.check)
             => /\ session_run.pc = "raised"
                /\ session_run.exc = "CommandExecutionError"
       /\ (session_run.returncode # 0 /\ ~session_run.check)
             => /\ session_run.pc = "returned"
                /\ session_run.result.returncode = session_run.returncode

\* C14: after the timeout of a call expired the process is never left
\* running: it is killed while run() waits for it, and has exited when
\* run() raises, which it does with CommandExecutionError; the call
\* never returns a result.
ThmC14 ==
    session_run.timed_out =>
        /\ session_run.timed
        /\ session_run.process \in {"killed", "exited"}
        /\ session_run.pc \in {"wait", "raised"}
        /\ session_run.pc = "wait" => session_run.process = "killed"
        /\ session_run.pc = "raised" =>
              /\ session_run.process = "exited"
              /\ session_run.exc = "CommandExecutionError"

\* A call with a timeout that ended by raising after the kill and the wait.
WitC14 ==
    /\ session_run.timed_out
    /\ session_run.pc = "raised"
    /\ session_run.process = "exited"
    /\ session_run.returncode = -9

\* The cases of C18, read off what the remote command gave.
CommandFailed == inventory.returncode # 0

OutputEmpty ==
    inventory.stdout.utf8 /\ inventory.stdout.text.kind \in {"empty", "blank"}

OutputNotJSON ==
    ~inventory.stdout.utf8 \/ inventory.stdout.text.kind = "words"

\* The array of a list payload: the payload, or its data.
ArrayOf(doc) == IF doc.t = "list" THEN doc.items ELSE doc.data.items

HasArray(doc) ==
    doc.t = "list" \/ (doc.t = "mapping" /\ doc.data.present /\ doc.data.is_list)

\* What the interface endpoint is to look at in a mapping.
FieldOf(doc) == IF doc.result.present THEN doc.result ELSE doc.data

\* A payload the interface endpoint can use: a list of valid interfaces,
\* bare or under the result or data of a mapping.
InterfacesUsable(doc) ==
    \/ doc.t = "list" /\ Validates(TRUE, doc.items)
    \/ /\ doc.t = "mapping"
       /\ doc.result.present \/ doc.data.present
       /\ Validates(FieldOf(doc).is_list, FieldOf(doc).items)

BadShapeOrRecord ==
    /\ inventory.stdout.utf8
    /\ inventory.stdout.text.kind = "json"
    /\ LET doc == inventory.stdout.text.doc
       IN  IF inventory.endpoint = "fetch_vm_interfaces"
           THEN ~InterfacesUsable(doc)
           ELSE ~HasArray(doc) \/ ~Validates(TRUE, ArrayOf(doc))

\* C18: when the remote command failed, or its output was empty or
\* whitespace, or no valid JSON, or the payload had an unusable shape or a
\* record against the schema, the endpoint has failed, and with
\* ProxmoxCLIError.
CexC18 ==
    (/\ inventory.pc = "over"
     /\ CommandFailed \/ OutputEmpty \/ OutputNotJSON \/ BadShapeOrRecord)
    => inventory.out.raised = "ProxmoxCLIError"

\* C19: on a payload the endpoint got to (the command succeeded and wrote
\* JSON), a list endpoint gives the guest records of the payload's array,
\* be it the payload itself or the payload's data, and fails with
\* ProxmoxCLIError on every other payload; the interface endpoint, given a
\* mapping with result or data, validates result when that key is there
\* and data otherwise.
ThmC19 ==
    (inventory.pc = "over" /\ inventory.out.parsed) =>
        LET doc == inventory.out.payload
        IN  IF inventory.endpoint = "fetch_vm_interfaces"
            THEN (doc.t = "mapping" /\ (doc.result.present \/ doc.data.present)) =>
                    IF Validates(FieldOf(doc).is_list, FieldOf(doc).items)
                    THEN /\ inventory.out.raised = "none"
                         /\ inventory.out.records = FieldOf(doc).items
                    ELSE inventory.out.raised = "ProxmoxCLIError"
            ELSE IF HasArray(doc) /\ Validates(TRUE, ArrayOf(doc))
                 THEN /\ inventory.out.raised = "none"
                      /\ inventory.out.records = GuestRecords(ArrayOf(doc))
                 ELSE inventory.out.raised = "ProxmoxCLIError"

\* A listing took two guests out of the data of a mapping (one of them
\* without a status), as it would out of a bare array.
WitC19 ==
    /\ inventory.pc = "over"
    /\ inventory.endpoint = "list_containers"
    /\ inventory.out.payload.t = "mapping"
    /\ inventory.out.raised = "none"
    /\ inventory.out.records =
          <<[vmid |-> 100, status |-> "running"], [vmid |-> 101, status |-> "unknown"]>>

\* A token qualifies when it has exactly four parts, each an integer in
\* 0..255.
Qualifies(parts) ==
    /\ Len(parts) = 4
    /\ \A n \in 1..4 : parts[n].int /\ parts[n].val \in 0..255

\* The first qualifying token of the output's tokens, if any.
FirstQualifying(tokens) ==
    LET Q == {n \in 1..Len(tokens) : Qualifies(tokens[n])}
    IN  IF Q = {} THEN None
        ELSE [found |-> TRUE,
              token |-> JoinDots(tokens[CHOOSE n \in Q : \A m \in Q : n <= m])]

\* C20: extract_ipv4 returns the first token of the output that has four
\* dot-separated parts each an integer in 0..255, and None when there is
\* none; ContainerAgent.fetch_ip returns the same for the same output
\* whenever its command succeeded.
ThmC20 ==
    address.pc = "over" =>
        /\ address.extracted = FirstQualifying(address.tokens)
        /\ address.returncode = 0 => address.fetched = address.extracted

\* Of two addresses in a padded output the first was returned by both.
WitC20 ==
    /\ address.pc = "over"
    /\ address.returncode = 0
    /\ Len(address.tokens) = 2
    /\ Qualifies(address.tokens[1])
    /\ Qualifies(address.tokens[2])
    /\ address.tokens[1] # address.tokens[2]
    /\ Head(address.output) = Space
    /\ address.extracted.found
    /\ address.extracted.token = JoinDots(address.tokens[1])
    /\ address.fetched = address.extracted

\* A requested name that the manifest does not have.
Unknown(requested) ==
    \E n \in 1..Len(requested) :
        \A m \in 1..Len(ManifestHosts) : ManifestHosts[m] # requested[n]

\* C21: once select_hosts was called, with an empty filter it returned
\* every manifest host in manifest order, with a filter of known names
\* the hosts named in the order requested, and for a filter with an
\* unknown name it raised ValueError and selected nothing.
CexC21 ==
    selection.called =>
        /\ host_filters = <<>> =>
              selection.raised = "none" /\ selection.hosts = ManifestHosts
        /\ (host_filters # <<>> /\ ~Unknown(host_filters)) =>
              selection.raised = "none" /\ selection.hosts = host_filters
        /\ Unknown(host_filters) =>
              selection.raised = "ValueError" /\ selection.hosts = <<>>

\* C22: the options of a host run by the batch have dry_run = force_dry_run
\* or the manifest's dry_run of the host: under a forced dry-run, and for a
\* host the manifest marks dry_run, the run is a dry run, its reconcilers
\* are given that dry_run, and none of its mutable commands spawns a
\* process.
ThmC22 ==
    (impl # "single" /\ run >= 1) =>
        /\ options.dry_run = (force_dry_run \/ options.host_dry_run)
        /\ (force_dry_run \/ options.host_dry_run) =>
              /\ options.dry_run
              /\ \A n \in 1..Len(olog) : olog[n].mutable => ~olog[n].spawned
              /\ \A k \in Kinds : \A i \in TaskIds(run, k) :
                    /\ batch[run][k].dry_run
                    /\ \A n \in 1..Len(Tasks(run, k)[i].log) :
                          Tasks(run, k)[i].log[n].mutable
                             => ~Tasks(run, k)[i].log[n].spawned

\* The second host of a batch under forced dry-run, which the manifest
\* does not mark dry_run: the shutdown of its guest spawned nothing.
WitC22 ==
    /\ impl # "single"
    /\ run = 2
    /\ force_dry_run
    /\ ~options.host_dry_run
    /\ options.dry_run
    /\ \E k \in Kinds : \E i \in TaskIds(run, k) :
          \E n \in 1..Len(Tasks(run, k)[i].log) :
             /\ Tasks(run, k)[i].log[n].cmd = "shutdown"
             /\ ~Tasks(run, k)[i].log[n].spawned

\* C23: in a reconciliation that went on by itself, once the stop of a guest
\* found running has returned successfully, and until the start is issued,
\* the record's status is "stopped"; once the start has returned
\* successfully, and until a final stop is issued, it is "running"; under
\* dry-run as well.
CexC23 ==
    \A s \in Slots, k \in Kinds : \A i \in TaskIds(s, k) :
        LET w == Tasks(s, k)[i]
            cmds == Commands(w.log)
        IN  w.pc # "cancelled" =>
              /\ (/\ w.was_running
                  /\ cmds \in {<<"shutdown">>, <<"shutdown", "backup">>}
                  /\ w.pc # "stop"
                  /\ w.failed # "stop")
                 => w.status = "stopped"
              /\ (/\ Len(cmds) > 0
                  /\ cmds[Len(cmds)] \in {"start", "fetch_ip", "guest_release"}
                  /\ w.pc # "start"
                  /\ w.failed # "start")
                 => w.status = "running"
\* The addresses of a reply in the order scanned: interface after
\* interface, each one's addresses in order.
RECURSIVE Flatten(_)
Flatten(interfaces) ==
    IF interfaces = <<>> THEN <<>> ELSE Head(interfaces) \o Flatten(Tail(interfaces))

\* The positions of the IPv4-typed addresses, whatever the case of the type.
TypedIPv4(flat) ==
    {n \in 1..Len(flat) : flat[n].ip_address_type \in {"ipv4", "IPv4", "IPV4"}}

\* What the claim expects of a discovery: none on an inventory error and
\* when no address is IPv4-typed, else the first IPv4-typed address.
FirstIPv4(reply, out) ==
    LET flat == Flatten(reply.interfaces)
        hits == TypedIPv4(flat)
    IN  /\ reply.raised = "ProxmoxCLIError" => out.raised = "none" /\ ~out.found
        /\ reply.raised = "none" =>
              /\ out.raised = "none"
              /\ out.found = (hits # {})
              /\ hits # {} => out.ip = flat[CHOOSE n \in hits : \A m \in hits : n <= m].ip_address

CexC27 ==
    \A s \in Slots, k \in Kinds : \A i \in TaskIds(s, k) :
        Tasks(s, k)[i].pc = "cancelled" => Tasks(s, k)[i].log # <<>>

\* The position of the first backup command in a log.
FirstBackup(log) ==
    CHOOSE n \in 1..Len(log) :
        log[n].cmd = "backup" /\ \A m \in 1..(n - 1) : log[m].cmd # "backup"

\* C28: a guest whose backup command was issued has a recorded status other
\* than "running"; if it was listed as running, its stop command was issued
\* before the backup and did not fail; and no guest has more than one
\* backup command in a run.
ThmC28 ==
    \A s \in Slots, k \in Kinds : \A i \in TaskIds(s, k) :
        LET w == Tasks(s, k)[i]
        IN  /\ Count(w.log, "backup") <= 1
            /\ Issued(w.log, "backup") =>
                  /\ w.status # "running"
                  /\ w.was_running =>
                        /\ \E n \in 1..(FirstBackup(w.log) - 1) : w.log[n].cmd = "shutdown"
                        /\ w.failed # "stop"

\* A guest listed as stopped whose backup reached the host and ended, the
\* reconciliation having gone on to the start command.
WitC28 ==
    \E s \in Slots, k \in Kinds : \E i \in TaskIds(s, k) :
        LET w == Tasks(s, k)[i]
        IN  /\ w.status = "stopped"
            /\ Commands(w.log) = <<"backup", "start">>
            /\ w.log[1].spawned
            /\ Count(w.log, "backup") = 1

\* The run of slot s raised: gather raised the exception of one of its
\* reconcilers (nothing else leaves ProxmoxAgent.run with an exception here).
RunRaised(s) ==
    \E k \in Kinds : \E i \in TaskIds(s, k) : Tasks(s, k)[i].pc = "raised"

\* C29: run_with_options returns 0 whenever it returns; in a batch a host's
\* result is a failure exactly when its run raised, so a run that ended
\* with logged failures only (listings, host release file, host upgrade) is
\* a success, and a batch of such runs returns 0.
ThmC29 ==
    /\ impl = "single" =>
          /\ bpc = "returned" <=> opc = "returned"
          /\ bpc = "returned" => exit_code = 0
          /\ bpc = "raised" => RunRaised(1)
    /\ impl # "single" =>
          /\ \A n \in 1..Len(results) : results[n].success <=> ~RunRaised(n)
          /\ (run >= 1 /\ Len(results) = run) =>
                /\ results[run].success <=> opc = "returned"
                /\ ~results[run].success <=> opc = "raised"
          /\ (bpc = "returned" /\ \A n \in 1..Len(results) : ~RunRaised(n)) =>
                exit_code \in {0, 1}
          /\ (bpc = "returned" /\ Len(results) >= 1 /\ \A n \in 1..Len(results) : ~RunRaised(n)) =>
                exit_code = 0

\* A batch of two hosts returned 0 although in the last run both listings
\* and the host's upgrade failed.
WitC29 ==
    /\ impl # "single"
    /\ bpc = "returned"
    /\ Len(results) = 2
    /\ list_error["vm"] /\ list_error["ct"] /\ list_error["host"]
    /\ Issued(olog, "host_upgrade")
    /\ olog[Len(olog)].spawned
    /\ results[2].success
    /\ exit_code = 0

\* The other implementation of the batch runner.
OtherModule == IF impl = "legacy" THEN "core" ELSE "legacy"

\* C30: proxmox_batch.async_run_batch and proxmox_cli.core.batch's come to
\* the same outcome on the same manifest, filters and limit: what the one
\* called selected, returned or raised before its loop is what the other
\* selects, returns or raises, an unknown host filter included.
CexC30 ==
    (impl # "single" /\ bpc # "start") =>
        LET b == Begin(OtherModule, host_filters, limit, manifest # "error")
        IN  /\ b.selected_hosts = selected_hosts
            /\ results = <<>> =>
                  /\ b.bpc = bpc
                  /\ b.exit_code = exit_code
                  /\ b.error = error

=============================================================================
